---- MODULE Spec2Model ----
(***************************************************************************)
(* ArchFlow server: authentication, role guard, task statuses and tasks.   *)
(* The tables are the PostgreSQL tables of shared/schema.ts, the actions   *)
(* are the Express handlers of the routes file, each with its middleware   *)
(* chain (authenticate, checkRole, validateBody) and its storage calls.    *)
(***************************************************************************)
EXTENDS Integers, Sequences, FiniteSets, TLC

\* ---------------------------------------------------------------- bounds
MaxTasks == 2
MaxStatuses == 2
\* rows per table under SpecAuth
AuthMaxRows == 1
\* requests in flight at once under SpecConc
MaxInflight == 2
\* rows per table of clients, projects and transactions under SpecRecords
RecMaxRows == 1
\* tasks under SpecMove
MoveMaxTasks == 1
\* drag mutations of the board in flight at once under SpecBoard
MaxDrags == 2
\* register-office requests in flight at once under SpecRegister
MaxRegistrations == 2

\* ------------------------------------------------------------- constants
\* SQL NULL / JavaScript null, and JavaScript undefined (a key that is not in the
\* object), encoded as numbers no id takes: ids are serial (1, 2, ...) and
\* z.number().int().positive() rejects the rest.
NULL == 0
ABSENT == -1

\* insertTaskStatusSchema: order: z.number().int().default(0)
DefaultOrder == 0

\* userId the super admin branch of login puts in its token
SuperAdminUserId == 0

\* the rows of the offices table
Offices == {1, 2}

\* user_role_enum
Roles == {"admin", "architect", "intern", "financial", "marketing"}

\* the values of task_statuses.order the requests of the model carry
Orders == {0, 1}

NoToken == [userId |-> -1, signed |-> FALSE]
ForgedToken == [userId |-> 1, signed |-> FALSE]
SuperAdminToken == [userId |-> SuperAdminUserId, signed |-> TRUE]
UserToken(u) == [userId |-> u, signed |-> TRUE]

\* ----------------------------------------------------------------- state
VARIABLES
    users,          \* users table: id -> [username, role, officeId, isActive]
    issued,         \* tokens signed by login so far
    taskStatuses,   \* task_statuses table: id -> [officeId, name, order]
    tasks,          \* tasks table: id -> [officeId, taskStatusId, title, projectId, parentTaskId]
    nextStatusId,   \* serial of task_statuses.id
    nextTaskId,     \* serial of tasks.id
    clients,        \* clients table: id -> [officeId, name]
    projects,       \* projects table: id -> [officeId, clientId, name]
    transactions,   \* transactions table: id -> [officeId, projectId, category]
    nextClientId, nextProjectId, nextTransactionId,     \* their serials
    sent,           \* the last request as the client sent it (kept under SpecMove and SpecStatus)
    mirror,         \* the board's tasks prop: id of each fetched task -> the column of its card
    stale,          \* the query of the task list is invalidated (or was never fetched)
    draggedTask,    \* the card being dragged, as handleDragStart stored it
    mutations,      \* the calls of updateTaskMutation that are not settled yet
    offices,        \* offices table: id -> [email]
    nextOfficeId, nextUserId,   \* serials of offices.id and users.id
    registrations,  \* the register-office requests between their awaits
    inflight,       \* the POST/PUT task requests between their status check and their write
    last            \* the last request and its response; dflt: the task got the default status

records == <<clients, projects, transactions, nextClientId, nextProjectId, nextTransactionId>>
board == <<mirror, stale, draggedTask, mutations>>
registry == <<offices, nextOfficeId, nextUserId, registrations>>
vars == <<users, issued, taskStatuses, tasks, nextStatusId, nextTaskId, records, sent, board,
          registry, inflight, last>>
tables == <<users, taskStatuses, tasks, nextStatusId, nextTaskId>>
\* what a handler that runs in one step never touches
aside == <<inflight, records, sent, board, registry>>

InitUsers ==
    (1 :> [username |-> "u1", role |-> "admin", officeId |-> 1, isActive |-> TRUE]) @@
    (2 :> [username |-> "u2", role |-> "intern", officeId |-> 1, isActive |-> TRUE]) @@
    (3 :> [username |-> "u3", role |-> "admin", officeId |-> 2, isActive |-> TRUE]) @@
    (4 :> [username |-> "u4", role |-> "financial", officeId |-> 2, isActive |-> TRUE])

\* the offices of the users above
InitOffices == (1 :> [email |-> "o1@x"]) @@ (2 :> [email |-> "o2@x"])

Idle == [op |-> "idle"]

\* useState<Task | null>(null)
NoDrag == [id |-> NULL, status |-> NULL]

NothingSent == [op |-> "none", uid |-> -1, id |-> NULL, payload |-> <<>>, again |-> FALSE]

NoRequest ==
    [op |-> "none", uid |-> -1, id |-> NULL, code |-> 0, err |-> "", guard |-> "notrun",
     body |-> <<>>, dflt |-> FALSE]

Init ==
    /\ users = InitUsers
    /\ issued = {UserToken(u) : u \in DOMAIN InitUsers}
    /\ taskStatuses = <<>>
    /\ tasks = <<>>
    /\ nextStatusId = 1
    /\ nextTaskId = 1
    /\ clients = <<>> /\ projects = <<>> /\ transactions = <<>>
    /\ nextClientId = 1 /\ nextProjectId = 1 /\ nextTransactionId = 1
    /\ sent = NothingSent
    /\ mirror = <<>> /\ stale = TRUE /\ draggedTask = NoDrag
    /\ mutations = [r \in 1..MaxDrags |-> Idle]
    /\ offices = InitOffices /\ nextOfficeId = 3 /\ nextUserId = 5
    /\ registrations = [r \in 1..MaxRegistrations |-> Idle]
    /\ inflight = [r \in 1..MaxInflight |-> Idle]
    /\ last = NoRequest

\* -------------------------------------------------------------- storage
\* the rows a SELECT ... WHERE returns, as a set; "const [row] = ..." takes one
getUser(id) == {[id |-> u] @@ users[u] : u \in {x \in DOMAIN users : x = id}}

\* the lookup by id alone
MutgetTaskStatusById(statusId, officeId) == {s \in DOMAIN taskStatuses : s = statusId}
getTaskStatusById(statusId, officeId) ==
    {s \in DOMAIN taskStatuses : s = statusId /\ taskStatuses[s].officeId = officeId}

\* SELECT ... FROM offices WHERE email = email
getOfficeByEmail(email) == {o \in DOMAIN offices : offices[o].email = email}

\* SELECT ... FROM users WHERE username = username
getUserByUsername(username) == {u \in DOMAIN users : users[u].username = username}

OfficeStatusIds(officeId) == {s \in DOMAIN taskStatuses : taskStatuses[s].officeId = officeId}

\* the rows an UPDATE or DELETE of task_statuses matches, by id alone
MutStatusRowsWhere(statusId, officeId) == {s \in DOMAIN taskStatuses : s = statusId}
\* updateTaskStatus / deleteTaskStatus: WHERE id = statusId AND office_id = officeId
StatusRowsWhere(statusId, officeId) ==
    {s \in DOMAIN taskStatuses : s = statusId /\ taskStatuses[s].officeId = officeId}

\* the query without its ORDER BY
MutgetTaskStatusesByOfficeId(officeId) ==
    LET ids == {s \in DOMAIN taskStatuses : taskStatuses[s].officeId = officeId}
        n == Cardinality(ids)
    IN {q \in [1..n -> ids] : \A i, j \in 1..n : i # j => q[i] # q[j]}

\* ORDER BY status_order: every order of the office's rows that is ascending in
\* "order"; rows of equal order come in an order the database chooses.
getTaskStatusesByOfficeId(officeId) ==
    LET ids == OfficeStatusIds(officeId)
        n == Cardinality(ids)
    IN {q \in [1..n -> ids] :
            /\ \A i, j \in 1..n : i # j => q[i] # q[j]
            /\ \A i, j \in 1..n : i < j => taskStatuses[q[i]].order <= taskStatuses[q[j]].order}

\* ORDER BY created_at DESC: rows are created in the order of their serial id
RECURSIVE Descending(_)
Descending(ids) ==
    IF ids = {} THEN <<>>
    ELSE LET m == CHOOSE x \in ids : \A y \in ids : y <= x IN <<m>> \o Descending(ids \ {m})

\* the query without its WHERE
MutgetTasksByOffice(officeId) == Descending(DOMAIN tasks)
getTasksByOffice(officeId) ==
    Descending({t \in DOMAIN tasks : tasks[t].officeId = officeId})

\* the rows of a SELECT in every order the database may return them
Orderings(ids) ==
    LET n == Cardinality(ids)
    IN {q \in [1..n -> ids] : \A i, j \in 1..n : i # j => q[i] # q[j]}

\* WHERE office_id = officeId AND is_active = true, with no ORDER BY
getUsersByOffice(officeId) ==
    Orderings({u \in DOMAIN users : users[u].officeId = officeId /\ users[u].isActive})

\* WHERE office_id = officeId ORDER BY created_at DESC
getClientsByOffice(officeId) ==
    Descending({c \in DOMAIN clients : clients[c].officeId = officeId})

getProjectsByOffice(officeId) ==
    Descending({x \in DOMAIN projects : projects[x].officeId = officeId})

\* WHERE office_id = officeId ORDER BY date DESC: the date is the client's, so the
\* rows come in any order as far as their ids go
getTransactionsByOffice(officeId) ==
    Orderings({x \in DOMAIN transactions : transactions[x].officeId = officeId})

\* SET that fills only the columns that are null (COALESCE(column, value))
MutMerge(row, patch) ==
    [f \in DOMAIN row |-> IF f \in DOMAIN patch /\ row[f] = NULL THEN patch[f] ELSE row[f]]
\* the elements of a list
Range(q) == {q[i] : i \in DOMAIN q}

\* a patch merged into a row: SET of the keys the patch holds
Merge(row, patch) == [f \in DOMAIN row |-> IF f \in DOMAIN patch THEN patch[f] ELSE row[f]]

\* the foreign keys of tasks: task_status_id -> task_statuses.id, office_id ->
\* offices.id, project_id -> projects.id, parent_task_id -> tasks.id
MutTaskForeignKeysHold(row, statuses) == TRUE
TaskForeignKeysHold(row, statuses) ==
    /\ row.taskStatusId = NULL \/ row.taskStatusId \in DOMAIN statuses
    /\ row.officeId \in Offices
    /\ row.projectId = NULL \/ row.projectId \in DOMAIN projects
    /\ row.parentTaskId = NULL \/ row.parentTaskId \in DOMAIN tasks

Without(f, k) == [x \in DOMAIN f \ {k} |-> f[x]]

\* tasks.parentTaskId ... onDelete: 'cascade': the rows that go with the rows of
\* "gone", their subtasks and the subtasks of those
RECURSIVE CascadeTasks(_, _)
CascadeTasks(tsk, gone) ==
    LET more == {t \in DOMAIN tsk \ gone : tsk[t].parentTaskId \in gone}
    IN IF more = {} THEN gone ELSE CascadeTasks(tsk, gone \cup more)

\* DELETE FROM tasks WHERE id = taskId, with the cascade to the subtasks
OnDeleteTask(tsk, taskId) ==
    [t \in DOMAIN tsk \ CascadeTasks(tsk, {taskId} \cap DOMAIN tsk) |-> tsk[t]]

\* a cascade that stops at the tasks of the project
MutOnDeleteProject(tsk, projectId) ==
    [t \in {x \in DOMAIN tsk : tsk[x].projectId # projectId} |-> tsk[t]]
\* tasks.projectId ... onDelete: 'cascade', and from there tasks.parentTaskId
OnDeleteProject(tsk, projectId) ==
    [t \in DOMAIN tsk \ CascadeTasks(tsk, {x \in DOMAIN tsk : tsk[x].projectId = projectId})
        |-> tsk[t]]

\* tasks.taskStatusId ... onDelete: 'set null'
MutOnDeleteStatus(tsk, statusId) == [t \in {x \in DOMAIN tsk : tsk[x].taskStatusId # statusId} |-> tsk[t]]
OnDeleteStatus(tsk, statusId) ==
    [t \in DOMAIN tsk |->
        IF tsk[t].taskStatusId = statusId THEN [tsk[t] EXCEPT !.taskStatusId = NULL] ELSE tsk[t]]

\* ----------------------------------------------------------- middleware
\* jwt.decode in place of jwt.verify: the signature is not checked
Mutauthenticate(token) ==
    IF token = NoToken
    THEN [ok |-> FALSE, code |-> 401, err |-> "No token provided"]
    ELSE IF getUser(token.userId) = {}
    THEN [ok |-> FALSE, code |-> 401, err |-> "Invalid token"]
    ELSE [ok |-> TRUE, user |-> CHOOSE u \in getUser(token.userId) : TRUE]
authenticate(token) ==
    IF token = NoToken
    THEN [ok |-> FALSE, code |-> 401, err |-> "No token provided"]
    ELSE IF ~token.signed
    THEN [ok |-> FALSE, code |-> 401, err |-> "Invalid token"]
    ELSE IF getUser(token.userId) = {}
    THEN [ok |-> FALSE, code |-> 401, err |-> "Invalid token"]
    ELSE [ok |-> TRUE, user |-> CHOOSE u \in getUser(token.userId) : TRUE]

\* req.user is a row of users, which has no isSuperAdmin column
IsSuperAdmin(user) == "isSuperAdmin" \in DOMAIN user /\ user.isSuperAdmin = TRUE

MutcheckRole(user, allowedRoles) == [ok |-> TRUE]
checkRole(user, allowedRoles) ==
    IF "role" \notin DOMAIN user
    THEN [ok |-> FALSE, code |-> 403, err |-> "Forbidden: Role not available"]
    ELSE IF IsSuperAdmin(user) THEN [ok |-> TRUE]
    ELSE IF user.role \in allowedRoles THEN [ok |-> TRUE]
    ELSE [ok |-> FALSE, code |-> 403, err |-> "Forbidden: Insufficient permissions"]

\* validateBody(insertTaskSchema): officeId is a required column of the schema;
\* insertTaskSchema.partial() requires nothing
validateTaskBody(body, partial) == partial \/ body.officeId # ABSENT

\* if (req.body.taskStatusId): a positive number is truthy, null and undefined are not
Truthy(x) == x \notin {NULL, ABSENT}

\* the value of a key of a request body: undefined when the body has no such key
Field(rec, f) == IF f \in DOMAIN rec THEN rec[f] ELSE ABSENT

\* the value an INSERT stores for a nullable column: NULL when the body has no such key
Column(rec, f) == IF f \in DOMAIN rec /\ rec[f] # ABSENT THEN rec[f] ELSE NULL

\* ------------------------------------------------------- route declarations
\* the roles each route hands to checkRole; a route that is not in the table is
\* declared with authenticate alone
AllowedRoles ==
    [r \in {"GET /api/tasks", "GET /api/clients", "GET /api/projects", "GET /api/users"} |->
        {"admin", "architect", "intern", "financial", "marketing"}] @@
    [r \in {"GET /api/transactions"} |-> {"admin", "financial"}] @@
    [r \in {"POST /api/tasks", "PUT /api/tasks/:id"} |-> {"admin", "architect", "intern"}] @@
    [r \in {"DELETE /api/tasks/:id", "POST /api/task_statuses",
            "PUT /api/task_statuses/:statusId", "DELETE /api/task_statuses/:statusId",
            "POST /api/clients", "PUT /api/clients/:id", "DELETE /api/clients/:id",
            "POST /api/projects", "PUT /api/projects/:id"} |->
        {"admin", "architect"}] @@
    [r \in {"DELETE /api/projects/:id", "PUT /api/users/:id", "DELETE /api/users/:id"} |->
        {"admin"}] @@
    [r \in {"POST /api/transactions", "PUT /api/transactions/:id",
            "DELETE /api/transactions/:id"} |->
        {"admin", "financial"}]

\* authenticate, then checkRole when the route declares it
Pre(op, token) ==
    LET a == authenticate(token) IN
    IF ~a.ok
    THEN [ok |-> FALSE, code |-> a.code, err |-> a.err, guard |-> "notrun", user |-> <<>>]
    ELSE IF op \notin DOMAIN AllowedRoles
    THEN [ok |-> TRUE, code |-> 0, err |-> "", guard |-> "notrun", user |-> a.user]
    ELSE LET g == checkRole(a.user, AllowedRoles[op]) IN
         IF g.ok
         THEN [ok |-> TRUE, code |-> 0, err |-> "", guard |-> "allow", user |-> a.user]
         ELSE [ok |-> FALSE, code |-> g.code, err |-> g.err, guard |-> "deny", user |-> a.user]

Respond(op, token, id, pre, code, err, body) ==
    last' = [op |-> op, uid |-> token.userId, id |-> id, code |-> code, err |-> err,
             guard |-> pre.guard, body |-> body, dflt |-> FALSE]

\* the middleware answered: the handler does not run
Refuse(op, token, id, pre) ==
    /\ Respond(op, token, id, pre, pre.code, pre.err, <<>>)
    /\ UNCHANGED <<tables, issued>>

\* the handler answered without a write
Fail(op, token, id, pre, code, err) ==
    /\ Respond(op, token, id, pre, code, err, <<>>)
    /\ UNCHANGED <<tables, issued>>

NoOffice == "User is not associated with an office."

\* ------------------------------------------------------------- login
\* POST /api/auth/login, super admin branch: the credentials match the environment
LoginSuperAdmin ==
    /\ issued' = issued \cup {SuperAdminToken}
    /\ last' = [op |-> "POST /api/auth/login", uid |-> SuperAdminUserId, id |-> NULL,
                code |-> 200, err |-> "", guard |-> "notrun", body |-> <<>>, dflt |-> FALSE]
    /\ UNCHANGED <<tables, aside>>

\* POST /api/auth/login with the password of the user of that name:
\* getUserByUsername, bcrypt.compare, jwt.sign({ userId: user.id })
LoginUser(username) ==
    /\ UNCHANGED <<tables, aside>>
    /\ IF getUserByUsername(username) = {}
       THEN /\ last' = [op |-> "POST /api/auth/login", uid |-> -1, id |-> NULL, code |-> 401,
                        err |-> "Invalid credentials", guard |-> "notrun", body |-> <<>>,
                        dflt |-> FALSE]
            /\ UNCHANGED issued
       ELSE \E u \in getUserByUsername(username) :
                /\ issued' = issued \cup {UserToken(u)}
                /\ last' = [op |-> "POST /api/auth/login", uid |-> u, id |-> NULL, code |-> 200,
                            err |-> "", guard |-> "notrun", body |-> <<>>, dflt |-> FALSE]

\* ------------------------------------------------------ registration
\* POST /api/auth/register-office, one step per storage call the handler awaits.
\* The answer of a registration, in "last" (uid: the user created, or none)
RegisterAnswer(uid, code, err) ==
    last' = [op |-> "POST /api/auth/register-office", uid |-> uid, id |-> NULL, code |-> code,
             err |-> err, guard |-> "notrun", body |-> <<>>, dflt |-> FALSE]

RegisterFrame == UNCHANGED <<taskStatuses, tasks, nextStatusId, nextTaskId, inflight, records,
                             sent, board>>

\* storage.getOfficeByEmail(officeData.email)
RegisterCheckOffice(slot, email, username) ==
    /\ registrations[slot] = Idle
    /\ RegisterFrame
    /\ UNCHANGED <<users, issued, offices, nextOfficeId, nextUserId>>
    /\ IF getOfficeByEmail(email) # {}
       THEN /\ RegisterAnswer(-1, 400, "Office email already exists")
            /\ UNCHANGED registrations
       ELSE /\ registrations' = [registrations EXCEPT ![slot] =
                    [op |-> "office checked", email |-> email, username |-> username,
                     officeId |-> NULL]]
            /\ UNCHANGED last

\* storage.getUserByUsername(userData.username)
RegisterCheckUser(slot) ==
    /\ registrations[slot].op = "office checked"
    /\ RegisterFrame
    /\ UNCHANGED <<users, issued, offices, nextOfficeId, nextUserId>>
    /\ IF getUserByUsername(registrations[slot].username) # {}
       THEN /\ RegisterAnswer(-1, 400, "Username already exists")
            /\ registrations' = [registrations EXCEPT ![slot] = Idle]
       ELSE /\ registrations' = [registrations EXCEPT ![slot].op = "user checked"]
            /\ UNCHANGED last

\* storage.createOffice(officeData): the insert fails on offices.email unique, and
\* the catch answers 400
createOffice(slot) ==
    /\ registrations[slot].op = "user checked"
    /\ RegisterFrame
    /\ UNCHANGED <<users, issued, nextUserId>>
    /\ IF getOfficeByEmail(registrations[slot].email) # {}
       THEN /\ RegisterAnswer(-1, 400, "Registration failed")
            /\ registrations' = [registrations EXCEPT ![slot] = Idle]
            /\ UNCHANGED <<offices, nextOfficeId>>
       ELSE /\ offices' = offices @@ (nextOfficeId :> [email |-> registrations[slot].email])
            /\ nextOfficeId' = nextOfficeId + 1
            /\ registrations' = [registrations EXCEPT ![slot].op = "office created",
                                                      ![slot].officeId = nextOfficeId]
            /\ UNCHANGED last

\* storage.createUser({...userData, officeId: office.id, role: "admin"}), jwt.sign
\* and the answer; the insert fails on users.username unique, and the catch
\* answers 400
createUser(slot) ==
    /\ registrations[slot].op = "office created"
    /\ RegisterFrame
    /\ UNCHANGED <<offices, nextOfficeId>>
    /\ registrations' = [registrations EXCEPT ![slot] = Idle]
    /\ IF getUserByUsername(registrations[slot].username) # {}
       THEN /\ RegisterAnswer(-1, 400, "Registration failed")
            /\ UNCHANGED <<users, issued, nextUserId>>
       ELSE /\ users' = users @@
                    (nextUserId :> [username |-> registrations[slot].username,
                                    role |-> "admin",
                                    officeId |-> registrations[slot].officeId,
                                    isActive |-> TRUE])
            /\ nextUserId' = nextUserId + 1
            /\ issued' = issued \cup {UserToken(nextUserId)}
            /\ RegisterAnswer(nextUserId, 200, "")

\* ------------------------------------------------------- task statuses
\* validateBody(insertTaskStatusSchema.omit({ officeId: true })): req.body becomes the
\* parsed data, in which an omitted order is the schema's default
validateStatusBody(body) ==
    [name |-> body.name,
     order |-> IF Field(body, "order") = ABSENT THEN DefaultOrder ELSE body.order]

\* the handler of POST /api/task_statuses, on the tables and the response
PostTaskStatusHandler(token, body) ==
    LET op == "POST /api/task_statuses"
        pre == Pre(op, token)
    IN IF ~pre.ok THEN Refuse(op, token, NULL, pre)
       ELSE IF pre.user.officeId = NULL THEN Fail(op, token, NULL, pre, 400, NoOffice)
       ELSE /\ taskStatuses' = taskStatuses @@
                 (nextStatusId :> [officeId |-> pre.user.officeId,
                                   name |-> validateStatusBody(body).name,
                                   order |-> validateStatusBody(body).order])
            /\ nextStatusId' = nextStatusId + 1
            /\ Respond(op, token, NULL, pre, 201, "", <<nextStatusId>>)
            /\ UNCHANGED <<users, tasks, nextTaskId, issued>>

PostTaskStatus(token, body) ==
    /\ UNCHANGED aside
    /\ PostTaskStatusHandler(token, body)

GetTaskStatuses(token) ==
    /\ UNCHANGED aside
    /\ LET op == "GET /api/task_statuses"
           pre == Pre(op, token)
       IN IF ~pre.ok THEN Refuse(op, token, NULL, pre)
          ELSE IF pre.user.officeId = NULL THEN Fail(op, token, NULL, pre, 400, NoOffice)
          ELSE /\ \E q \in getTaskStatusesByOfficeId(pre.user.officeId) :
                    Respond(op, token, NULL, pre, 200, "", q)
               /\ UNCHANGED <<tables, issued>>

PutTaskStatus(token, statusId, patch) ==
    /\ UNCHANGED aside
    /\ LET op == "PUT /api/task_statuses/:statusId"
           pre == Pre(op, token)
       IN IF ~pre.ok THEN Refuse(op, token, statusId, pre)
          ELSE IF pre.user.officeId = NULL THEN Fail(op, token, statusId, pre, 400, NoOffice)
          ELSE IF StatusRowsWhere(statusId, pre.user.officeId) = {}
          THEN Fail(op, token, statusId, pre, 404, "Task status not found or not authorized.")
          ELSE /\ taskStatuses' = [taskStatuses EXCEPT ![statusId] = Merge(@, patch)]
               /\ Respond(op, token, statusId, pre, 200, "", <<statusId>>)
               /\ UNCHANGED <<users, tasks, nextStatusId, nextTaskId, issued>>

DeleteTaskStatus(token, statusId) ==
    /\ UNCHANGED aside
    /\ LET op == "DELETE /api/task_statuses/:statusId"
           pre == Pre(op, token)
       IN IF ~pre.ok THEN Refuse(op, token, statusId, pre)
          ELSE IF pre.user.officeId = NULL THEN Fail(op, token, statusId, pre, 400, NoOffice)
          ELSE IF StatusRowsWhere(statusId, pre.user.officeId) = {}
          THEN Fail(op, token, statusId, pre, 404, "Task status not found or not authorized.")
          ELSE /\ taskStatuses' = Without(taskStatuses, statusId)
               /\ tasks' = OnDeleteStatus(tasks, statusId)
               /\ Respond(op, token, statusId, pre, 200, "", <<>>)
               /\ UNCHANGED <<users, nextStatusId, nextTaskId, issued>>

\* --------------------------------------------------------------- tasks
\* the handler of GET /api/tasks, on the tables and the response
GetTasksHandler(token) ==
    LET op == "GET /api/tasks"
        pre == Pre(op, token)
    IN IF ~pre.ok THEN Refuse(op, token, NULL, pre)
       ELSE IF pre.user.officeId = NULL THEN Fail(op, token, NULL, pre, 400, NoOffice)
       ELSE /\ Respond(op, token, NULL, pre, 200, "", getTasksByOffice(pre.user.officeId))
            /\ UNCHANGED <<tables, issued>>

GetTasks(token) ==
    /\ UNCHANGED aside
    /\ GetTasksHandler(token)

\* storage.createTask: INSERT ... RETURNING, the foreign keys checked by the database
createTask(op, token, pre, row, dflt) ==
    IF ~TaskForeignKeysHold(row, taskStatuses)
    THEN Fail(op, token, NULL, pre, 400, "Failed to create task")
    ELSE /\ tasks' = tasks @@ (nextTaskId :> row)
         /\ nextTaskId' = nextTaskId + 1
         /\ last' = [op |-> op, uid |-> token.userId, id |-> NULL, code |-> 201, err |-> "",
                     guard |-> pre.guard, body |-> <<nextTaskId>>, dflt |-> dflt]
         /\ UNCHANGED <<users, taskStatuses, nextStatusId, issued>>

\* POST /api/tasks up to its call of storage.createTask: the answer it gives
\* itself, or the rows it may hand to createTask (one per order the list of the
\* office's statuses may come in)
ResolvePostTask(token, body) ==
    LET pre == Pre("POST /api/tasks", token)
        stop(code, err) == [ok |-> FALSE, pre |-> pre, code |-> code, err |-> err, rows |-> {}]
        row(statusId, dflt) ==
            [row |-> [officeId |-> pre.user.officeId, taskStatusId |-> statusId,
                      title |-> body.title, projectId |-> Column(body, "projectId"),
                      parentTaskId |-> Column(body, "parentTaskId")],
             dflt |-> dflt]
    IN IF ~pre.ok THEN stop(pre.code, pre.err)
       ELSE IF ~validateTaskBody(body, FALSE) THEN stop(400, "Validation failed")
       ELSE IF pre.user.officeId = NULL THEN stop(400, NoOffice)
       ELSE IF Truthy(body.taskStatusId)
       THEN IF getTaskStatusById(body.taskStatusId, pre.user.officeId) = {}
            THEN stop(400, "Invalid task status ID.")
            ELSE [ok |-> TRUE, pre |-> pre, code |-> 0, err |-> "",
                  rows |-> {row(body.taskStatusId, FALSE)}]
       ELSE IF \E defaultStatuses \in getTaskStatusesByOfficeId(pre.user.officeId) :
                    Len(defaultStatuses) > 0
       THEN [ok |-> TRUE, pre |-> pre, code |-> 0, err |-> "",
             rows |-> {row(defaultStatuses[1], TRUE) :
                          defaultStatuses \in getTaskStatusesByOfficeId(pre.user.officeId)}]
       ELSE stop(400, "No task statuses configured for this office.")

\* the handler of POST /api/tasks, on the tables and the response
PostTaskHandler(token, body) ==
    LET op == "POST /api/tasks"
        r == ResolvePostTask(token, body)
    IN IF ~r.ok THEN Fail(op, token, NULL, r.pre, r.code, r.err)
       ELSE \E c \in r.rows : createTask(op, token, r.pre, c.row, c.dflt)

PostTask(token, body) ==
    /\ UNCHANGED aside
    /\ PostTaskHandler(token, body)

\* an update that takes "no column changed" for "no row found" and throws
MutupdateTask(op, token, pre, taskId, patch) ==
    IF taskId \notin DOMAIN tasks \/ Merge(tasks[taskId], patch) = tasks[taskId]
    THEN Fail(op, token, taskId, pre, 400, "Failed to update task")
    ELSE /\ tasks' = [tasks EXCEPT ![taskId] = Merge(@, patch)]
         /\ Respond(op, token, taskId, pre, 200, "", <<taskId>>)
         /\ UNCHANGED <<users, taskStatuses, nextStatusId, nextTaskId, issued>>
\* storage.updateTask: UPDATE tasks SET patch WHERE id = taskId RETURNING;
\* .set() of an object with no column throws ("No values to set", or the syntax
\* error of an UPDATE with an empty SET), which the handler answers with 400
updateTask(op, token, pre, taskId, patch) ==
    IF DOMAIN patch = {}
    THEN Fail(op, token, taskId, pre, 400, "Failed to update task")
    ELSE IF taskId \notin DOMAIN tasks
    THEN Fail(op, token, taskId, pre, 200, "")
    ELSE IF ~TaskForeignKeysHold(Merge(tasks[taskId], patch), taskStatuses)
    THEN Fail(op, token, taskId, pre, 400, "Failed to update task")
    ELSE /\ tasks' = [tasks EXCEPT ![taskId] = Merge(@, patch)]
         /\ Respond(op, token, taskId, pre, 200, "", <<taskId>>)
         /\ UNCHANGED <<users, taskStatuses, nextStatusId, nextTaskId, issued>>

\* PUT /api/tasks/:id up to its call of storage.updateTask
ResolvePutTask(token, taskId, patch) ==
    LET pre == Pre("PUT /api/tasks/:id", token)
        stop(code, err) == [ok |-> FALSE, pre |-> pre, code |-> code, err |-> err]
    IN IF ~pre.ok THEN stop(pre.code, pre.err)
       ELSE IF pre.user.officeId = NULL THEN stop(400, NoOffice)
       ELSE IF /\ Truthy(Field(patch, "taskStatusId"))
               /\ getTaskStatusById(patch.taskStatusId, pre.user.officeId) = {}
       THEN stop(400, "Invalid task status ID.")
       ELSE [ok |-> TRUE, pre |-> pre, code |-> 0, err |-> ""]

\* the handler of PUT /api/tasks/:id, on the tables and the response
PutTaskHandler(token, taskId, patch) ==
    LET op == "PUT /api/tasks/:id"
        r == ResolvePutTask(token, taskId, patch)
    IN IF ~r.ok THEN Fail(op, token, taskId, r.pre, r.code, r.err)
       ELSE updateTask(op, token, r.pre, taskId, patch)

PutTask(token, taskId, patch) ==
    /\ UNCHANGED aside
    /\ PutTaskHandler(token, taskId, patch)

DeleteTask(token, taskId) ==
    /\ UNCHANGED aside
    /\ LET op == "DELETE /api/tasks/:id"
           pre == Pre(op, token)
       IN IF ~pre.ok THEN Refuse(op, token, taskId, pre)
          ELSE /\ tasks' = OnDeleteTask(tasks, taskId)
               /\ Respond(op, token, taskId, pre, 200, "", <<>>)
               /\ UNCHANGED <<users, taskStatuses, nextStatusId, nextTaskId, issued>>

\* ----------------------------------------------------------- dashboard
GetDashboardStats(token) ==
    /\ UNCHANGED aside
    /\ LET op == "GET /api/dashboard/stats"
           pre == Pre(op, token)
       IN IF ~pre.ok THEN Refuse(op, token, NULL, pre)
          ELSE IF pre.user.officeId = NULL THEN Fail(op, token, NULL, pre, 400, "No office associated")
          ELSE /\ Respond(op, token, NULL, pre, 200, "", <<>>)
               /\ UNCHANGED <<tables, issued>>

\* ------------------------------------- clients, projects, transactions, users
\* the handlers below leave the task tables and the requests in flight alone
RecFrame ==
    UNCHANGED <<taskStatuses, tasks, nextStatusId, nextTaskId, issued, inflight, sent, board, registry>>

PostClient(token, body) ==
    /\ RecFrame
    /\ LET op == "POST /api/clients"
           pre == Pre(op, token)
       IN IF ~pre.ok \/ pre.user.officeId = NULL
          THEN /\ Respond(op, token, NULL, pre, IF pre.ok THEN 400 ELSE pre.code,
                          IF pre.ok THEN "No office associated" ELSE pre.err, <<>>)
               /\ UNCHANGED <<users, records>>
          ELSE /\ clients' = clients @@
                    (nextClientId :> [body EXCEPT !.officeId = pre.user.officeId])
               /\ nextClientId' = nextClientId + 1
               /\ Respond(op, token, NULL, pre, 200, "", <<nextClientId>>)
               /\ UNCHANGED <<users, projects, transactions, nextProjectId, nextTransactionId>>

\* storage.updateClient: UPDATE clients SET patch WHERE id = id RETURNING
PutClient(token, id, patch) ==
    /\ RecFrame
    /\ LET op == "PUT /api/clients/:id"
           pre == Pre(op, token)
       IN IF ~pre.ok
          THEN Respond(op, token, id, pre, pre.code, pre.err, <<>>) /\ UNCHANGED <<users, records>>
          ELSE IF id \notin DOMAIN clients
          THEN Respond(op, token, id, pre, 200, "", <<>>) /\ UNCHANGED <<users, records>>
          ELSE /\ clients' = [clients EXCEPT ![id] = Merge(@, patch)]
               /\ Respond(op, token, id, pre, 200, "", <<id>>)
               /\ UNCHANGED <<users, projects, transactions, nextClientId, nextProjectId,
                              nextTransactionId>>

\* storage.deleteClient: DELETE FROM clients WHERE id = id; projects.client_id
\* references clients.id with no onDelete, so a referenced client is not deleted
DeleteClient(token, id) ==
    /\ RecFrame
    /\ LET op == "DELETE /api/clients/:id"
           pre == Pre(op, token)
       IN IF ~pre.ok
          THEN Respond(op, token, id, pre, pre.code, pre.err, <<>>) /\ UNCHANGED <<users, records>>
          ELSE IF \E p \in DOMAIN projects : projects[p].clientId = id
          THEN /\ Respond(op, token, id, pre, 400, "Failed to delete client", <<>>)
               /\ UNCHANGED <<users, records>>
          ELSE /\ clients' = Without(clients, id)
               /\ Respond(op, token, id, pre, 200, "", <<>>)
               /\ UNCHANGED <<users, projects, transactions, nextClientId, nextProjectId,
                              nextTransactionId>>

\* validateBody(insertProjectSchema): clientId is a required column; the insert
\* checks projects.client_id -> clients.id
PostProject(token, body) ==
    /\ RecFrame
    /\ LET op == "POST /api/projects"
           pre == Pre(op, token)
       IN IF ~pre.ok \/ pre.user.officeId = NULL
          THEN /\ Respond(op, token, NULL, pre, IF pre.ok THEN 400 ELSE pre.code,
                          IF pre.ok THEN "No office associated" ELSE pre.err, <<>>)
               /\ UNCHANGED <<users, records>>
          ELSE IF body.clientId \notin DOMAIN clients
          THEN /\ Respond(op, token, NULL, pre, 400, "Failed to create project", <<>>)
               /\ UNCHANGED <<users, records>>
          ELSE /\ projects' = projects @@
                    (nextProjectId :> [body EXCEPT !.officeId = pre.user.officeId])
               /\ nextProjectId' = nextProjectId + 1
               /\ Respond(op, token, NULL, pre, 200, "", <<nextProjectId>>)
               /\ UNCHANGED <<users, clients, transactions, nextClientId, nextTransactionId>>

\* storage.updateProject: UPDATE projects SET patch WHERE id = id RETURNING
PutProject(token, id, patch) ==
    /\ RecFrame
    /\ LET op == "PUT /api/projects/:id"
           pre == Pre(op, token)
       IN IF ~pre.ok
          THEN Respond(op, token, id, pre, pre.code, pre.err, <<>>) /\ UNCHANGED <<users, records>>
          ELSE IF id \notin DOMAIN projects
          THEN Respond(op, token, id, pre, 200, "", <<>>) /\ UNCHANGED <<users, records>>
          ELSE /\ projects' = [projects EXCEPT ![id] = Merge(@, patch)]
               /\ Respond(op, token, id, pre, 200, "", <<id>>)
               /\ UNCHANGED <<users, clients, transactions, nextClientId, nextProjectId,
                              nextTransactionId>>

\* storage.deleteProject: DELETE FROM projects WHERE id = id;
\* transactions.project_id and tasks.project_id ... onDelete: 'cascade'
DeleteProject(token, id) ==
    /\ UNCHANGED <<taskStatuses, nextStatusId, nextTaskId, issued, inflight, sent, board, registry>>
    /\ LET op == "DELETE /api/projects/:id"
           pre == Pre(op, token)
       IN IF ~pre.ok
          THEN /\ Respond(op, token, id, pre, pre.code, pre.err, <<>>)
               /\ UNCHANGED <<users, tasks, records>>
          ELSE /\ projects' = Without(projects, id)
               /\ tasks' = IF id \in DOMAIN projects THEN OnDeleteProject(tasks, id) ELSE tasks
               /\ transactions' =
                    [x \in {y \in DOMAIN transactions :
                                id \notin DOMAIN projects \/ transactions[y].projectId # id} |->
                        transactions[x]]
               /\ Respond(op, token, id, pre, 200, "", <<>>)
               /\ UNCHANGED <<users, clients, nextClientId, nextProjectId, nextTransactionId>>

PostTransaction(token, body) ==
    /\ RecFrame
    /\ LET op == "POST /api/transactions"
           pre == Pre(op, token)
       IN IF ~pre.ok \/ pre.user.officeId = NULL
          THEN /\ Respond(op, token, NULL, pre, IF pre.ok THEN 400 ELSE pre.code,
                          IF pre.ok THEN "No office associated" ELSE pre.err, <<>>)
               /\ UNCHANGED <<users, records>>
          ELSE IF body.projectId # NULL /\ body.projectId \notin DOMAIN projects
          THEN /\ Respond(op, token, NULL, pre, 400, "Failed to create transaction", <<>>)
               /\ UNCHANGED <<users, records>>
          ELSE /\ transactions' = transactions @@
                    (nextTransactionId :> [body EXCEPT !.officeId = pre.user.officeId])
               /\ nextTransactionId' = nextTransactionId + 1
               /\ Respond(op, token, NULL, pre, 200, "", <<nextTransactionId>>)
               /\ UNCHANGED <<users, clients, projects, nextClientId, nextProjectId>>

\* storage.updateTransaction: UPDATE transactions SET patch WHERE id = id RETURNING
PutTransaction(token, id, patch) ==
    /\ RecFrame
    /\ LET op == "PUT /api/transactions/:id"
           pre == Pre(op, token)
       IN IF ~pre.ok
          THEN Respond(op, token, id, pre, pre.code, pre.err, <<>>) /\ UNCHANGED <<users, records>>
          ELSE IF id \notin DOMAIN transactions
          THEN Respond(op, token, id, pre, 200, "", <<>>) /\ UNCHANGED <<users, records>>
          ELSE /\ transactions' = [transactions EXCEPT ![id] = Merge(@, patch)]
               /\ Respond(op, token, id, pre, 200, "", <<id>>)
               /\ UNCHANGED <<users, clients, projects, nextClientId, nextProjectId,
                              nextTransactionId>>

\* storage.deleteTransaction: DELETE FROM transactions WHERE id = id
DeleteTransaction(token, id) ==
    /\ RecFrame
    /\ LET op == "DELETE /api/transactions/:id"
           pre == Pre(op, token)
       IN IF ~pre.ok
          THEN Respond(op, token, id, pre, pre.code, pre.err, <<>>) /\ UNCHANGED <<users, records>>
          ELSE /\ transactions' = Without(transactions, id)
               /\ Respond(op, token, id, pre, 200, "", <<>>)
               /\ UNCHANGED <<users, clients, projects, nextClientId, nextProjectId,
                              nextTransactionId>>

\* storage.updateUser: UPDATE users SET patch WHERE id = id RETURNING
PutUser(token, id, patch) ==
    /\ RecFrame
    /\ LET op == "PUT /api/users/:id"
           pre == Pre(op, token)
       IN IF ~pre.ok
          THEN Respond(op, token, id, pre, pre.code, pre.err, <<>>) /\ UNCHANGED <<users, records>>
          ELSE IF id \notin DOMAIN users
          THEN Respond(op, token, id, pre, 200, "", <<>>) /\ UNCHANGED <<users, records>>
          ELSE /\ users' = [users EXCEPT ![id] = Merge(@, patch)]
               /\ Respond(op, token, id, pre, 200, "", <<id>>)
               /\ UNCHANGED records

\* storage.deleteUser: UPDATE users SET is_active = false WHERE id = id
DeleteUser(token, id) ==
    /\ RecFrame
    /\ LET op == "DELETE /api/users/:id"
           pre == Pre(op, token)
       IN IF ~pre.ok
          THEN Respond(op, token, id, pre, pre.code, pre.err, <<>>) /\ UNCHANGED <<users, records>>
          ELSE /\ users' = [u \in DOMAIN users |->
                                IF u = id THEN [users[u] EXCEPT !.isActive = FALSE] ELSE users[u]]
               /\ Respond(op, token, id, pre, 200, "", <<>>)
               /\ UNCHANGED records

\* GET /api/clients, /api/projects, /api/transactions, /api/users: the rows the
\* storage query of the caller's office returns, in one of its orders
ListRecords(op, token, lists) ==
    /\ RecFrame
    /\ UNCHANGED <<users, records>>
    /\ LET pre == Pre(op, token)
       IN IF ~pre.ok THEN Respond(op, token, NULL, pre, pre.code, pre.err, <<>>)
          ELSE IF pre.user.officeId = NULL
          THEN Respond(op, token, NULL, pre, 400, "No office associated", <<>>)
          ELSE \E q \in lists[pre.user.officeId] : Respond(op, token, NULL, pre, 200, "", q)

GetClients(token) ==
    ListRecords("GET /api/clients", token, [o \in Offices |-> {getClientsByOffice(o)}])

GetProjects(token) ==
    ListRecords("GET /api/projects", token, [o \in Offices |-> {getProjectsByOffice(o)}])

GetTransactions(token) ==
    ListRecords("GET /api/transactions", token, [o \in Offices |-> getTransactionsByOffice(o)])

GetUsers(token) ==
    ListRecords("GET /api/users", token, [o \in Offices |-> getUsersByOffice(o)])

\* ------------------------------------------------------------ the board
\* KanbanBoard (kanban-board.tsx). The board shows its tasks prop; the page that
\* fills the prop from the query of "/api/tasks" is not among the sources, so the
\* refetch and the columns follow the specification: a card stands in the column
\* of its task's status, and the columns are the statuses of the user's office.
BoardToken == UserToken(1)

\* insertTaskSchema is a z.object: parsing strips the keys that are no column
TaskColumns == {"title", "officeId", "taskStatusId", "projectId", "parentTaskId"}
StripUnknown(body) == [f \in DOMAIN body \cap TaskColumns |-> body[f]]

BoardColumns == OfficeStatusIds(users[BoardToken.userId].officeId)

\* the query of the task list runs (on mount, and after an invalidation)
Refetch ==
    /\ stale
    /\ GetTasksHandler(BoardToken)
    /\ mirror' = IF last'.code = 200
                 THEN [t \in Range(last'.body) |-> tasks[t].taskStatusId]
                 ELSE mirror
    /\ stale' = FALSE
    /\ UNCHANGED <<inflight, records, registry, sent, draggedTask, mutations>>

\* getTasksByStatus(column.id): the cards of a column
getTasksByStatus(status) == {t \in DOMAIN mirror : mirror[t] = status}

handleDragStart(taskId) ==
    /\ \E column \in BoardColumns : taskId \in getTasksByStatus(column)
    /\ draggedTask' = [id |-> taskId, status |-> mirror[taskId]]
    /\ UNCHANGED <<tables, issued, records, registry, sent, inflight, last, mirror, stale, mutations>>

\* what handleDrop does to the tasks the board shows: the handler only calls
\* updateTaskMutation.mutate and clears draggedTask
MutMirrorOnDrop(cards, taskId, newStatus) == [cards EXCEPT ![taskId] = newStatus]
MirrorOnDrop(cards, taskId, newStatus) == cards

\* a drop that fires whatever the column
MutDropFires(dragged, newStatus) == dragged # NoDrag
\* if (draggedTask && draggedTask.status !== newStatus)
DropFires(dragged, newStatus) == dragged # NoDrag /\ dragged.status # newStatus

\* a drop on a column, with or without a card of the board being dragged
handleDrop(slot, newStatus) ==
    /\ newStatus \in BoardColumns
    /\ mutations[slot] = Idle
    /\ IF DropFires(draggedTask, newStatus)
       THEN /\ mutations' = [mutations EXCEPT ![slot] =
                    [op |-> "pending", taskId |-> draggedTask.id, status |-> newStatus,
                     code |-> 0, snapshot |-> mirror]]
            /\ mirror' = MirrorOnDrop(mirror, draggedTask.id, newStatus)
       ELSE UNCHANGED <<mutations, mirror>>
    /\ draggedTask' = NoDrag
    /\ UNCHANGED <<tables, issued, records, registry, sent, inflight, last, stale>>

\* mutationFn: apiRequest("PUT", `/api/tasks/${taskId}`, { status }), served
ServeMove(slot) ==
    /\ mutations[slot].op = "pending"
    /\ PutTaskHandler(BoardToken, mutations[slot].taskId,
                      StripUnknown([status |-> mutations[slot].status]))
    /\ mutations' = [mutations EXCEPT ![slot].op = "answered", ![slot].code = last'.code]
    /\ UNCHANGED <<inflight, records, registry, sent, mirror, stale, draggedTask>>

\* what onError does to the tasks the board shows: it raises a toast
MutMirrorOnError(cards) == <<>>
MirrorOnError(cards) == cards

\* onSuccess (invalidateQueries, toast) or onError (toast) of updateTaskMutation
SettleMove(slot) ==
    /\ mutations[slot].op = "answered"
    /\ IF mutations[slot].code < 400
       THEN stale' = TRUE /\ UNCHANGED mirror
       ELSE mirror' = MirrorOnError(mirror) /\ UNCHANGED stale
    /\ mutations' = [mutations EXCEPT ![slot] = Idle]
    /\ UNCHANGED <<tables, issued, records, registry, sent, inflight, last, draggedTask>>

\* ------------------------------------------------------- specification
StatusIds == 1..MaxStatuses
TaskIds == 1..MaxTasks

\* Spec: the task and task-status handlers, called by the admins of two offices.
\* The serials are capped: no request creates a row beyond MaxTasks / MaxStatuses.
DataTokens == {UserToken(1), UserToken(3)} \cap issued

StatusBodies == [name : {"Todo"}, order : Orders]
StatusPatches == [order : Orders]

TaskBodies == [title : {"a"}, officeId : Offices, taskStatusId : StatusIds \cup {ABSENT}]
TaskPatches == [taskStatusId : StatusIds \cup {NULL}] \cup [officeId : Offices]

Next ==
    \/ /\ nextStatusId <= MaxStatuses
       /\ \E token \in DataTokens, body \in StatusBodies : PostTaskStatus(token, body)
    \/ \E token \in DataTokens, statusId \in StatusIds, patch \in StatusPatches :
            PutTaskStatus(token, statusId, patch)
    \/ \E token \in DataTokens, statusId \in StatusIds : DeleteTaskStatus(token, statusId)
    \/ /\ nextTaskId <= MaxTasks
       /\ \E token \in DataTokens, body \in TaskBodies : PostTask(token, body)
    \/ \E token \in DataTokens, taskId \in TaskIds, patch \in TaskPatches :
            PutTask(token, taskId, patch)
    \/ \E token \in DataTokens, taskId \in TaskIds : DeleteTask(token, taskId)

Spec == Init /\ [][Next]_vars

\* SpecAuth: every route of the model, called with every kind of token (a user of
\* each role and office, the super admin's, none, a forged one) on small tables.
Tokens == issued \cup {NoToken, ForgedToken}
AuthIds == 1..AuthMaxRows

AuthTaskBodies == [title : {"a"}, officeId : {1, ABSENT}, taskStatusId : AuthIds \cup {ABSENT}]
AuthTaskPatches == [title : {"b"}] \cup [taskStatusId : AuthIds]

\* one request of the model's routes with a given Authorization header
RequestAuth(token) ==
    \/ /\ nextStatusId <= AuthMaxRows
       /\ PostTaskStatus(token, [name |-> "Todo", order |-> 0])
    \/ GetTaskStatuses(token)
    \/ \E statusId \in AuthIds : PutTaskStatus(token, statusId, [order |-> 1])
    \/ \E statusId \in AuthIds : DeleteTaskStatus(token, statusId)
    \/ GetTasks(token)
    \/ /\ nextTaskId <= AuthMaxRows
       /\ \E body \in AuthTaskBodies : PostTask(token, body)
    \/ \E taskId \in AuthIds, patch \in AuthTaskPatches : PutTask(token, taskId, patch)
    \/ \E taskId \in AuthIds : DeleteTask(token, taskId)
    \/ GetDashboardStats(token)

NextAuth ==
    \/ LoginSuperAdmin
    \/ \E token \in Tokens : RequestAuth(token)

SpecAuth == Init /\ [][NextAuth]_vars

\* SpecConc: POST and PUT of a task in two steps, as the handlers await the status
\* check and then the write, interleaved with one another and with the deletion
\* of statuses. One office's admin calls.
Slots == 1..MaxInflight

BeginPostTask(slot, token, body) ==
    /\ inflight[slot] = Idle
    /\ UNCHANGED <<records, sent, board, registry>>
    /\ LET op == "POST /api/tasks"
           r == ResolvePostTask(token, body)
       IN IF ~r.ok
          THEN Fail(op, token, NULL, r.pre, r.code, r.err) /\ UNCHANGED inflight
          ELSE /\ \E c \in r.rows :
                    inflight' = [inflight EXCEPT ![slot] =
                        [op |-> op, token |-> token, guard |-> r.pre.guard, row |-> c.row,
                         dflt |-> c.dflt]]
               /\ UNCHANGED <<tables, issued, last>>

FinishPostTask(slot) ==
    /\ inflight[slot].op = "POST /api/tasks"
    /\ createTask(inflight[slot].op, inflight[slot].token, inflight[slot],
                  inflight[slot].row, inflight[slot].dflt)
    /\ inflight' = [inflight EXCEPT ![slot] = Idle]
    /\ UNCHANGED <<records, sent, board, registry>>

BeginPutTask(slot, token, taskId, patch) ==
    /\ inflight[slot] = Idle
    /\ UNCHANGED <<records, sent, board, registry>>
    /\ LET op == "PUT /api/tasks/:id"
           r == ResolvePutTask(token, taskId, patch)
       IN IF ~r.ok
          THEN Fail(op, token, taskId, r.pre, r.code, r.err) /\ UNCHANGED inflight
          ELSE /\ inflight' = [inflight EXCEPT ![slot] =
                        [op |-> op, token |-> token, guard |-> r.pre.guard,
                         taskId |-> taskId, patch |-> patch]]
               /\ UNCHANGED <<tables, issued, last>>

FinishPutTask(slot) ==
    /\ inflight[slot].op = "PUT /api/tasks/:id"
    /\ updateTask(inflight[slot].op, inflight[slot].token, inflight[slot],
                  inflight[slot].taskId, inflight[slot].patch)
    /\ inflight' = [inflight EXCEPT ![slot] = Idle]
    /\ UNCHANGED <<records, sent, board, registry>>

ConcTokens == {UserToken(1)} \cap issued
ConcTaskBodies == [title : {"a"}, officeId : {1}, taskStatusId : StatusIds \cup {ABSENT}]
ConcTaskPatches == [taskStatusId : StatusIds]

NextConc ==
    \/ /\ nextStatusId <= MaxStatuses
       /\ \E token \in ConcTokens : PostTaskStatus(token, [name |-> "Todo", order |-> 0])
    \/ \E token \in ConcTokens, statusId \in StatusIds : DeleteTaskStatus(token, statusId)
    \/ /\ nextTaskId + Cardinality({r \in Slots : inflight[r].op = "POST /api/tasks"})
            <= MaxTasks
       /\ \E slot \in Slots, token \in ConcTokens, body \in ConcTaskBodies :
            BeginPostTask(slot, token, body)
    \/ \E slot \in Slots : FinishPostTask(slot)
    \/ \E slot \in Slots, token \in ConcTokens, taskId \in TaskIds, patch \in ConcTaskPatches :
            BeginPutTask(slot, token, taskId, patch)
    \/ \E slot \in Slots : FinishPutTask(slot)

SpecConc == Init /\ [][NextConc]_vars

\* SpecMove: the task requests with what the client sent kept next to the response;
\* "again" marks a request that repeats the one before it.
Sending(op, token, id, payload) ==
    sent' = [op |-> op, uid |-> token.userId, id |-> id, payload |-> payload,
             again |-> /\ last.op = op /\ last.uid = token.userId /\ last.id = id
                       /\ sent.op = op /\ sent.payload = payload]

SendPostTask(token, body) ==
    /\ PostTaskHandler(token, body)
    /\ Sending("POST /api/tasks", token, NULL, body)
    /\ UNCHANGED <<inflight, records, board, registry>>

SendPutTask(token, taskId, patch) ==
    /\ PutTaskHandler(token, taskId, patch)
    /\ Sending("PUT /api/tasks/:id", token, taskId, patch)
    /\ UNCHANGED <<inflight, records, board, registry>>

SendPostTaskStatus(token, body) ==
    /\ PostTaskStatusHandler(token, body)
    /\ Sending("POST /api/task_statuses", token, NULL, body)
    /\ UNCHANGED <<inflight, records, board, registry>>

MoveTaskIds == 1..MoveMaxTasks
MoveTaskBodies == [title : {"a"}, officeId : {1}, taskStatusId : StatusIds \cup {ABSENT}]
MoveTaskPatches == [taskStatusId : StatusIds] \cup [taskStatusId : StatusIds, title : {"b"}]

NextMove ==
    \/ /\ nextStatusId <= MaxStatuses
       /\ \E token \in DataTokens : PostTaskStatus(token, [name |-> "Todo", order |-> 0])
    \/ \E token \in DataTokens, statusId \in StatusIds : DeleteTaskStatus(token, statusId)
    \/ /\ nextTaskId <= MoveMaxTasks
       /\ \E token \in DataTokens, body \in MoveTaskBodies : SendPostTask(token, body)
    \/ \E token \in DataTokens, taskId \in MoveTaskIds, patch \in MoveTaskPatches :
            SendPutTask(token, taskId, patch)

SpecMove == Init /\ [][NextMove]_vars

\* SpecStatus: the task-status routes alone, with names that repeat and with
\* bodies that leave the order out; what the client sent is kept for the POST.
StatusNames == {"Todo", "Done"}
NamedStatusBodies == [name : StatusNames] \cup [name : StatusNames, order : {1}]
NamedStatusPatches == [name : StatusNames] \cup [order : Orders]

NextStatus ==
    \/ /\ nextStatusId <= MaxStatuses
       /\ \E token \in DataTokens, body \in NamedStatusBodies :
            SendPostTaskStatus(token, body)
    \/ \E token \in DataTokens : GetTaskStatuses(token)
    \/ \E token \in DataTokens, statusId \in StatusIds, patch \in NamedStatusPatches :
            PutTaskStatus(token, statusId, patch)
    \/ \E token \in DataTokens, statusId \in StatusIds : DeleteTaskStatus(token, statusId)

SpecStatus == Init /\ [][NextStatus]_vars

\* SpecBoard: one user's board over the tasks and statuses of the office, which
\* the office's admin creates through the routes.
DragSlots == 1..MaxDrags
BoardTaskBodies == [title : {"a"}, officeId : {1}, taskStatusId : StatusIds]

NextBoard ==
    \/ /\ nextStatusId <= MaxStatuses
       /\ PostTaskStatus(BoardToken, [name |-> "Todo", order |-> 0])
    \/ /\ nextTaskId <= MaxTasks
       /\ \E body \in BoardTaskBodies : PostTask(BoardToken, body)
    \/ Refetch
    \/ \E taskId \in TaskIds : handleDragStart(taskId)
    \/ \E slot \in DragSlots, newStatus \in StatusIds : handleDrop(slot, newStatus)
    \/ \E slot \in DragSlots : ServeMove(slot)
    \/ \E slot \in DragSlots : SettleMove(slot)

SpecBoard == Init /\ [][NextBoard]_vars

\* SpecRecords: the by-id writes of clients, projects, transactions and users,
\* called by the admins of two offices.
RecIds == 1..RecMaxRows
RecUserIds == {4}

NextRecords ==
    \/ /\ nextClientId <= RecMaxRows
       /\ \E token \in DataTokens, officeId \in Offices :
            PostClient(token, [name |-> "a", officeId |-> officeId])
    \/ \E token \in DataTokens, id \in RecIds : PutClient(token, id, [name |-> "b"])
    \/ \E token \in DataTokens, id \in RecIds : DeleteClient(token, id)
    \/ /\ nextProjectId <= RecMaxRows
       /\ \E token \in DataTokens, clientId \in RecIds, officeId \in Offices :
            PostProject(token, [name |-> "a", clientId |-> clientId, officeId |-> officeId])
    \/ \E token \in DataTokens, id \in RecIds : PutProject(token, id, [name |-> "b"])
    \/ \E token \in DataTokens, id \in RecIds : DeleteProject(token, id)
    \/ /\ nextTransactionId <= RecMaxRows
       /\ \E token \in DataTokens, projectId \in RecIds \cup {NULL}, officeId \in Offices :
            PostTransaction(token, [category |-> "a", projectId |-> projectId,
                                    officeId |-> officeId])
    \/ \E token \in DataTokens, id \in RecIds : PutTransaction(token, id, [category |-> "b"])
    \/ \E token \in DataTokens, id \in RecIds : DeleteTransaction(token, id)
    \/ \E token \in DataTokens, id \in RecUserIds : PutUser(token, id, [role |-> "architect"])
    \/ \E token \in DataTokens, id \in RecUserIds : DeleteUser(token, id)

SpecRecords == Init /\ [][NextRecords]_vars

\* SpecNoOffice: an admin takes the office away from a user (PUT /api/users/:id
\* with officeId null, which updateUserSchema accepts: the column is nullable);
\* the users, with and without an office, call the routes of tasks and clients.
NoOfficeUserIds == {1, 3}
NoOfficeIds == 1..AuthMaxRows

NextNoOffice ==
    \/ \E token \in DataTokens, id \in NoOfficeUserIds : PutUser(token, id, [officeId |-> NULL])
    \/ /\ nextStatusId <= AuthMaxRows
       /\ \E token \in DataTokens : PostTaskStatus(token, [name |-> "Todo", order |-> 0])
    \/ \E token \in DataTokens : GetTaskStatuses(token)
    \/ \E token \in DataTokens, statusId \in NoOfficeIds :
            DeleteTaskStatus(token, statusId)
    \/ \E token \in DataTokens : GetTasks(token)
    \/ /\ nextTaskId <= AuthMaxRows
       /\ \E token \in DataTokens :
            PostTask(token, [title |-> "a", officeId |-> 1, taskStatusId |-> ABSENT])
    \/ \E token \in DataTokens, taskId \in NoOfficeIds : PutTask(token, taskId, [title |-> "b"])
    \/ \E token \in DataTokens, taskId \in NoOfficeIds : DeleteTask(token, taskId)
    \/ /\ nextClientId <= AuthMaxRows
       /\ \E token \in DataTokens : PostClient(token, [name |-> "a", officeId |-> 1])
    \/ \E token \in DataTokens, id \in NoOfficeIds : PutClient(token, id, [name |-> "b"])
    \/ \E token \in DataTokens, id \in NoOfficeIds : DeleteClient(token, id)

SpecNoOffice == Init /\ [][NextNoOffice]_vars

\* SpecLists: rows of every table created, moved and deactivated by the admins of
\* two offices, and the six lists read by them.
ListIds == 1..AuthMaxRows
ListUserIds == {2, 3}

NextLists ==
    \/ /\ nextStatusId <= AuthMaxRows
       /\ \E token \in DataTokens : PostTaskStatus(token, [name |-> "Todo", order |-> 0])
    \/ /\ nextTaskId <= AuthMaxRows
       /\ \E token \in DataTokens :
            PostTask(token, [title |-> "a", officeId |-> 1, taskStatusId |-> ABSENT])
    \/ \E token \in DataTokens, taskId \in ListIds, officeId \in Offices :
            PutTask(token, taskId, [officeId |-> officeId])
    \/ /\ nextClientId <= AuthMaxRows
       /\ \E token \in DataTokens : PostClient(token, [name |-> "a", officeId |-> 1])
    \/ /\ nextProjectId <= AuthMaxRows
       /\ \E token \in DataTokens, clientId \in ListIds :
            PostProject(token, [name |-> "a", clientId |-> clientId, officeId |-> 1])
    \/ /\ nextTransactionId <= AuthMaxRows
       /\ \E token \in DataTokens :
            PostTransaction(token, [category |-> "a", projectId |-> NULL, officeId |-> 1])
    \/ \E token \in DataTokens, id \in ListUserIds : DeleteUser(token, id)
    \/ \E token \in DataTokens : GetTaskStatuses(token)
    \/ \E token \in DataTokens : GetTasks(token)
    \/ \E token \in DataTokens : GetClients(token)
    \/ \E token \in DataTokens : GetProjects(token)
    \/ \E token \in DataTokens : GetTransactions(token)
    \/ \E token \in DataTokens : GetUsers(token)

SpecLists == Init /\ [][NextLists]_vars

\* SpecCascade: an office's admin files tasks under projects and under other
\* tasks, and deletes tasks and projects.
CascadeMaxTasks == 3
CascadeMaxProjects == 2
CascadeTaskIds == 1..CascadeMaxTasks
CascadeProjectIds == 1..CascadeMaxProjects
CascadeTaskBodies ==
    [title : {"a"}, officeId : {1}, taskStatusId : {ABSENT},
     projectId : CascadeProjectIds \cup {ABSENT}, parentTaskId : CascadeTaskIds \cup {ABSENT}]

NextCascade ==
    \/ /\ nextStatusId <= AuthMaxRows
       /\ \E token \in ConcTokens : PostTaskStatus(token, [name |-> "Todo", order |-> 0])
    \/ /\ nextClientId <= AuthMaxRows
       /\ \E token \in ConcTokens : PostClient(token, [name |-> "a", officeId |-> 1])
    \/ /\ nextProjectId <= CascadeMaxProjects
       /\ \E token \in ConcTokens :
            PostProject(token, [name |-> "a", clientId |-> 1, officeId |-> 1])
    \/ /\ nextTaskId <= CascadeMaxTasks
       /\ \E token \in ConcTokens, body \in CascadeTaskBodies : PostTask(token, body)
    \/ \E token \in ConcTokens, taskId \in CascadeTaskIds : DeleteTask(token, taskId)
    \/ \E token \in ConcTokens, id \in CascadeProjectIds : DeleteProject(token, id)

SpecCascade == Init /\ [][NextCascade]_vars

\* SpecRegister: register-office requests that run interleaved, with e-mails and
\* usernames that repeat.
RegSlots == 1..MaxRegistrations
RegEmails == {"a@x", "b@x"}
RegUsernames == {"ann", "bob"}

NextRegister ==
    \/ \E slot \in RegSlots, email \in RegEmails, username \in RegUsernames :
            RegisterCheckOffice(slot, email, username)
    \/ \E slot \in RegSlots : RegisterCheckUser(slot)
    \/ \E slot \in RegSlots : createOffice(slot)
    \/ \E slot \in RegSlots : createUser(slot)

SpecRegister == Init /\ [][NextRegister]_vars

\* SpecDeleted: an admin deletes users of the office; the office's users log in,
\* read the tasks and create tasks and statuses.
DeletedUserIds == {1, 2}
DeletedTokens == {UserToken(u) : u \in DeletedUserIds} \cap issued
LoginNames == {"u2", "nobody"}

NextDeleted ==
    \/ \E token \in DeletedTokens, id \in DeletedUserIds : DeleteUser(token, id)
    \/ \E username \in LoginNames : LoginUser(username)
    \/ \E token \in DeletedTokens : GetTasks(token)
    \/ \E token \in DeletedTokens : GetUsers(token)
    \/ /\ nextStatusId <= AuthMaxRows
       /\ \E token \in DeletedTokens : PostTaskStatus(token, [name |-> "Todo", order |-> 0])
    \/ /\ nextTaskId <= MaxTasks
       /\ \E token \in DeletedTokens :
            PostTask(token, [title |-> "a", officeId |-> 1, taskStatusId |-> ABSENT])

SpecDeleted == Init /\ [][NextDeleted]_vars

\* ================================================================ claims

\* the principal a token resolves to is a user of an office other than the task's
Foreign(token, t) ==
    /\ authenticate(token).ok
    /\ ~IsSuperAdmin(authenticate(token).user)
    /\ t \in DOMAIN tasks
    /\ tasks[t].officeId # authenticate(token).user.officeId

\* C1: a PUT or DELETE of a task of another office, by a principal that is not a
\* super admin, leaves the task as it was and answers 403 or 404.
C1_TaskTenantIsolation ==
    [][\A token \in DataTokens, t \in TaskIds :
        (last'.op \in {"PUT /api/tasks/:id", "DELETE /api/tasks/:id"} /\ Foreign(token, t)) =>
            /\ \A patch \in TaskPatches :
                 PutTask(token, t, patch) =>
                    /\ t \in DOMAIN tasks' /\ tasks'[t] = tasks[t]
                    /\ last'.code \in {403, 404}
            /\ DeleteTask(token, t) =>
                    /\ t \in DOMAIN tasks' /\ tasks'[t] = tasks[t]
                    /\ last'.code \in {403, 404}]_vars

\* C3: after a create or an update by a principal, the officeId stored on the
\* record is the principal's, whatever officeId the body or the patch carries
\* (stated here for the tasks of the principal's own office).
C3_PayloadTenantInjection ==
    [][\A token \in DataTokens :
        (last'.op \in {"POST /api/tasks", "PUT /api/tasks/:id"} /\ authenticate(token).ok) =>
            /\ \A body \in TaskBodies :
                 (PostTask(token, body) /\ last'.code = 201) =>
                    tasks'[nextTaskId].officeId = authenticate(token).user.officeId
            /\ \A t \in TaskIds, patch \in TaskPatches :
                 (/\ t \in DOMAIN tasks
                  /\ tasks[t].officeId = authenticate(token).user.officeId
                  /\ PutTask(token, t, patch)
                  /\ t \in DOMAIN tasks') =>
                    tasks'[t].officeId = authenticate(token).user.officeId]_vars

\* C4: every task whose taskStatusId is set points at a status of its own office.
C4_StatusOfSameOffice ==
    \A t \in DOMAIN tasks :
        tasks[t].taskStatusId \in DOMAIN taskStatuses =>
            taskStatuses[tasks[t].taskStatusId].officeId = tasks[t].officeId

\* C5: a successful delete of status S keeps every task, clears the taskStatusId of
\* the tasks that referenced S, leaves the other tasks as they were, and S is in no
\* office's list afterwards.
C5_DeleteCascade ==
    [][\A token \in DataTokens, statusId \in StatusIds :
        (/\ last'.op = "DELETE /api/task_statuses/:statusId" /\ last'.code = 200
         /\ DeleteTaskStatus(token, statusId)) =>
            /\ DOMAIN tasks' = DOMAIN tasks
            /\ \A t \in DOMAIN tasks :
                 tasks'[t] = IF tasks[t].taskStatusId = statusId
                             THEN [tasks[t] EXCEPT !.taskStatusId = NULL]
                             ELSE tasks[t]
            /\ \A o \in Offices :
                 \A q \in (getTaskStatusesByOfficeId(o))' : statusId \notin Range(q)]_vars

\* a status was deleted while one task referenced it and another did not
C5_Witness ==
    /\ last.op = "DELETE /api/task_statuses/:statusId" /\ last.code = 200
    /\ last.id \notin DOMAIN taskStatuses
    /\ \E t1, t2 \in DOMAIN tasks :
         /\ tasks[t1].taskStatusId = NULL
         /\ tasks[t2].taskStatusId \in DOMAIN taskStatuses

\* C10: a POST of a task without a taskStatusId stores it with a status of lowest
\* order among the statuses of the caller's office; when the office has none, the
\* answer is 400 "No task statuses configured" and no task is created.
C10_DefaultStatus ==
    [][\A token \in DataTokens, body \in TaskBodies :
        (/\ last'.op = "POST /api/tasks" /\ ~Truthy(body.taskStatusId)
         /\ PostTask(token, body)) =>
            LET ids == OfficeStatusIds(authenticate(token).user.officeId) IN
            IF ids = {}
            THEN /\ last'.code = 400
                 /\ last'.err = "No task statuses configured for this office."
                 /\ tasks' = tasks
            ELSE /\ last'.code = 201
                 /\ DOMAIN tasks' = DOMAIN tasks \cup {nextTaskId}
                 /\ tasks'[nextTaskId].taskStatusId \in ids
                 /\ \A s \in ids :
                      taskStatuses[tasks'[nextTaskId].taskStatusId].order
                          <= taskStatuses[s].order]_vars

\* a task got the default status, and that status is not the office's first-created one
C10_Witness ==
    /\ last.op = "POST /api/tasks" /\ last.code = 201 /\ last.dflt
    /\ \E t \in DOMAIN tasks, s1, s2 \in DOMAIN taskStatuses :
         /\ last.body = <<t>>
         /\ tasks[t].taskStatusId = s2
         /\ s1 < s2
         /\ taskStatuses[s1].officeId = tasks[t].officeId
         /\ taskStatuses[s2].officeId = tasks[t].officeId
         /\ taskStatuses[s2].order < taskStatuses[s1].order

\* C7: on a route that declares checkRole, a request of an authenticated principal
\* that is not a super admin passes the guard exactly when the principal's role is
\* in the route's allowed roles; a request that does not pass is answered 403 and
\* changes no table.
C7_RoleGate ==
    /\ [](last.op \in DOMAIN AllowedRoles /\ last.code # 401 =>
            /\ last.uid \in DOMAIN users
            /\ last.guard \in {"allow", "deny"}
            /\ last.guard = "allow" <=> users[last.uid].role \in AllowedRoles[last.op])
    /\ [][last'.guard = "deny" => (last'.code = 403 /\ UNCHANGED tables)]_vars

\* an intern asked to delete an existing task and was refused
C7_Witness ==
    /\ last.op = "DELETE /api/tasks/:id" /\ last.guard = "deny" /\ last.code = 403
    /\ last.uid \in DOMAIN users /\ users[last.uid].role = "intern"
    /\ last.id \in DOMAIN tasks

\* C8: a request that carries the token of a successful super admin login is
\* accepted by authenticate and, on a route that declares checkRole, let through.
C8_SuperAdminBypass ==
    (last.op # "POST /api/auth/login" /\ last.uid = SuperAdminUserId) =>
        /\ last.code # 401
        /\ last.op \in DOMAIN AllowedRoles => last.guard = "allow"

\* the routes of the model that write, or read the rows of the caller's office
TenantRoutes ==
    {"GET /api/dashboard/stats", "GET /api/task_statuses", "POST /api/task_statuses",
     "PUT /api/task_statuses/:statusId", "DELETE /api/task_statuses/:statusId",
     "GET /api/tasks", "POST /api/tasks", "PUT /api/tasks/:id", "DELETE /api/tasks/:id"}

\* C9: the handler of a writing or tenant-scoped reading route runs only after the
\* role guard allowed the request.
C9_EveryRouteGuarded ==
    (last.op \in TenantRoutes /\ last.code # 401) => last.guard \in {"allow", "deny"}

\* C6: in no reachable state, the states between a request's status check and its
\* write included, does a task name a status that does not exist.
C6_NoDanglingStatus ==
    \A t \in DOMAIN tasks :
        tasks[t].taskStatusId # NULL => tasks[t].taskStatusId \in DOMAIN taskStatuses

\* a write came after the deletion of the status its request had checked
C6_Witness ==
    /\ last.code = 400
    /\ last.err \in {"Failed to create task", "Failed to update task"}
    /\ \E t \in DOMAIN tasks : tasks[t].taskStatusId = NULL

\* the office of the principal a token resolves to (a user row, never a super admin)
OfficeOf(token) == (CHOOSE u \in getUser(token.userId) : TRUE).officeId

\* C2: an update or delete of a client, project, transaction or user by id, by a
\* principal of another office, neither changes nor removes the row.
C2_RecordTenantIsolation ==
    [][\A token \in DataTokens :
        /\ \A id \in DOMAIN clients :
             (clients[id].officeId # OfficeOf(token) /\ last'.uid = token.userId) =>
                (id \in DOMAIN clients' /\ clients'[id] = clients[id])
        /\ \A id \in DOMAIN projects :
             (projects[id].officeId # OfficeOf(token) /\ last'.uid = token.userId) =>
                (id \in DOMAIN projects' /\ projects'[id] = projects[id])
        /\ \A id \in DOMAIN transactions :
             (transactions[id].officeId # OfficeOf(token) /\ last'.uid = token.userId) =>
                (id \in DOMAIN transactions' /\ transactions'[id] = transactions[id])
        /\ \A id \in DOMAIN users :
             (users[id].officeId # OfficeOf(token) /\ last'.uid = token.userId) =>
                users'[id] = users[id]]_vars

\* C11: a POST or PUT of a task that carries a taskStatusId which no status of the
\* caller's office has (none at all, or one of another office) is answered 400
\* "Invalid task status ID." and changes no task: none is stored, and the addressed
\* task keeps its status and every other field, whatever else the patch carried.
C11_InvalidStatusRejected ==
    [][(/\ last'.op \in {"POST /api/tasks", "PUT /api/tasks/:id"}
        /\ sent'.op = last'.op
        /\ last'.guard = "allow"
        /\ Truthy(Field(sent'.payload, "taskStatusId"))
        /\ sent'.payload.taskStatusId \notin OfficeStatusIds(users[last'.uid].officeId))
       => (/\ last'.code = 400
           /\ last'.err = "Invalid task status ID."
           /\ tasks' = tasks
           /\ nextTaskId' = nextTaskId)]_vars

\* a PUT that carried a title and the status of another office was refused, and
\* the task it addressed is there with its old title
C11_Witness ==
    /\ last.op = "PUT /api/tasks/:id"
    /\ last.err = "Invalid task status ID."
    /\ sent.op = last.op
    /\ "title" \in DOMAIN sent.payload
    /\ sent.payload.taskStatusId \in DOMAIN taskStatuses
    /\ last.id \in DOMAIN tasks
    /\ tasks[last.id].title = "a"
    /\ tasks[last.id].officeId = users[last.uid].officeId

\* C12: no POST or PUT of a task leaves a task without a status: a task's
\* taskStatusId is null after such a request only if it was null before it (set so
\* by the deletion of its status).
C12_NeverDetached ==
    [][last'.op \in {"POST /api/tasks", "PUT /api/tasks/:id"} =>
        \A t \in DOMAIN tasks' :
            tasks'[t].taskStatusId = NULL =>
                (t \in DOMAIN tasks /\ tasks[t].taskStatusId = NULL)]_vars

\* C13: a PUT of a task that repeats the PUT before it (same caller, same task,
\* same patch with a status of the caller's office), the first having succeeded,
\* succeeds too, changes no field of any task, and the task has the status of the
\* patch afterwards.
C13_IdempotentMove ==
    [][(/\ last'.op = "PUT /api/tasks/:id"
        /\ sent'.again
        /\ last.code = 200 /\ last.body # <<>>
        /\ Truthy(Field(sent'.payload, "taskStatusId")))
       => (/\ last'.code = 200
           /\ last'.body = <<last'.id>>
           /\ tasks' = tasks
           /\ tasks'[last'.id].taskStatusId = sent'.payload.taskStatusId)]_vars

\* the same move was sent twice in a row and the second answer is a success
C13_Witness ==
    /\ last.op = "PUT /api/tasks/:id"
    /\ sent.again
    /\ last.code = 200
    /\ last.id \in DOMAIN tasks
    /\ tasks[last.id].taskStatusId = sent.payload.taskStatusId
    /\ tasks[last.id].taskStatusId \in DOMAIN taskStatuses

\* C14: of two PUTs of one task in flight at once, each past its status check,
\* every write succeeds and stores its own status whatever the other request did
\* in between, so the task ends with the status of the write applied last (never
\* a third value, never none).
C14_LastWriteWins ==
    [][\A slot \in Slots :
        (/\ inflight[slot].op = "PUT /api/tasks/:id"
         /\ inflight'[slot] = Idle
         /\ inflight[slot].taskId \in DOMAIN tasks
         /\ inflight[slot].patch.taskStatusId \in DOMAIN taskStatuses)
        => (/\ last'.code = 200
            /\ tasks' = [tasks EXCEPT ![inflight[slot].taskId].taskStatusId =
                                            inflight[slot].patch.taskStatusId])]_vars

\* two moves of one task to different statuses are past their checks; one was
\* written, the other is still to be written over it
C14_Witness ==
    \E a, b \in Slots :
        /\ a # b
        /\ inflight[a].op = "PUT /api/tasks/:id"
        /\ inflight[b] = Idle
        /\ last.op = "PUT /api/tasks/:id" /\ last.code = 200
        /\ last.id = inflight[a].taskId
        /\ last.id \in DOMAIN tasks
        /\ tasks[last.id].taskStatusId \in DOMAIN taskStatuses
        /\ inflight[a].patch.taskStatusId \in DOMAIN taskStatuses
        /\ tasks[last.id].taskStatusId # inflight[a].patch.taskStatusId

\* C19: no two statuses of one office have the same name (a POST of a status
\* whose name a status of the caller's office already has adds no status, and no
\* rename makes two names equal).
C19_UniqueStatusNames ==
    \A a, b \in DOMAIN taskStatuses :
        (a # b /\ taskStatuses[a].officeId = taskStatuses[b].officeId) =>
            taskStatuses[a].name # taskStatuses[b].name

\* the largest order among the statuses of an office, -1 when it has none
MaxOrder(statuses, officeId) ==
    LET orders == {statuses[s].order :
                        s \in {x \in DOMAIN statuses : statuses[x].officeId = officeId}}
    IN IF orders = {} THEN -1 ELSE CHOOSE m \in orders : \A o \in orders : o <= m

\* C20: a status created by a POST whose body has no order gets the largest order
\* of the statuses its office had, plus one (0 when it had none).
C20_DefaultOrder ==
    [][(/\ last'.op = "POST /api/task_statuses"
        /\ last'.code = 201
        /\ sent'.op = last'.op
        /\ "order" \notin DOMAIN sent'.payload)
       => \A s \in Range(last'.body) :
            taskStatuses'[s].order =
                MaxOrder(taskStatuses, taskStatuses'[s].officeId) + 1]_vars

C21_SortedByOrderThenId ==
    (last.op = "GET /api/task_statuses" /\ last.code = 200) =>
        /\ Range(last.body) = OfficeStatusIds(users[last.uid].officeId)
        /\ \A i, j \in DOMAIN last.body :
             i < j =>
                \/ taskStatuses[last.body[i]].order < taskStatuses[last.body[j]].order
                \/ /\ taskStatuses[last.body[i]].order = taskStatuses[last.body[j]].order
                   /\ last.body[i] < last.body[j]

C23_NoExistenceLeak ==
    [][/\ (/\ last'.op \in {"PUT /api/task_statuses/:statusId",
                            "DELETE /api/task_statuses/:statusId"}
           /\ last'.guard = "allow"
           /\ \/ last'.id \notin DOMAIN taskStatuses
              \/ taskStatuses[last'.id].officeId # users[last'.uid].officeId)
          => (last'.code = 404 /\ last'.body = <<>>)
       /\ (/\ last'.op \in {"PUT /api/tasks/:id", "DELETE /api/tasks/:id"}
           /\ last'.guard = "allow"
           /\ \/ last'.id \notin DOMAIN tasks
              \/ tasks[last'.id].officeId # users[last'.uid].officeId)
          => (last'.code = 404 /\ last'.body = <<>>)]_vars

\* C24: a request of an authenticated principal that has no office, on any route
\* of the tenant's data (lists, creations, updates and deletions by id), is
\* answered 400 for the missing office and changes no row.
C24_NoTenantAssociation ==
    [][(/\ last'.op \notin {"none", "POST /api/auth/login"}
        /\ last'.guard # "deny"
        /\ last'.uid \in DOMAIN users
        /\ users[last'.uid].officeId = NULL)
       => /\ last'.code = 400
          /\ last'.err \in {NoOffice, "No office associated"}
          /\ UNCHANGED <<tables, records>>]_vars

\* C25: a request without a token, with a token whose signature does not verify,
\* or with a token whose user id names no user, is answered 401; the role guard
\* does not run and no row of any table changes.
C25_AuthFailureTerminal ==
    [][\A token \in Tokens :
        (/\ \/ token = NoToken
            \/ ~token.signed
            \/ token.userId \notin DOMAIN users
         /\ last'.uid = token.userId
         /\ RequestAuth(token))
        => /\ last'.code = 401
           /\ last'.guard = "notrun"
           /\ UNCHANGED <<tables, records>>]_vars

\* the deletion of an existing task was asked with a signed token whose user id
\* names no user, and was answered 401
C25_Witness ==
    /\ last.op = "DELETE /api/tasks/:id"
    /\ last.id \in DOMAIN tasks
    /\ last.uid \notin DOMAIN users /\ last.uid # NoToken.userId
    /\ last.code = 401

\* C26: a list answered to a principal of an office holds the rows of that office
\* and no other row: every task, status, client, project and transaction whose
\* officeId is the principal's, and every active user of the office.
C26_ListsOfOwnOffice ==
    (last.code = 200 /\ last.uid \in DOMAIN users) =>
        LET A == users[last.uid].officeId IN
        /\ last.op = "GET /api/tasks" =>
             Range(last.body) = {t \in DOMAIN tasks : tasks[t].officeId = A}
        /\ last.op = "GET /api/task_statuses" =>
             Range(last.body) = {x \in DOMAIN taskStatuses : taskStatuses[x].officeId = A}
        /\ last.op = "GET /api/clients" =>
             Range(last.body) = {x \in DOMAIN clients : clients[x].officeId = A}
        /\ last.op = "GET /api/projects" =>
             Range(last.body) = {x \in DOMAIN projects : projects[x].officeId = A}
        /\ last.op = "GET /api/transactions" =>
             Range(last.body) = {x \in DOMAIN transactions : transactions[x].officeId = A}
        /\ last.op = "GET /api/users" =>
             Range(last.body) = {x \in DOMAIN users : users[x].officeId = A /\ users[x].isActive}

\* the list of tasks answered to an admin leaves out the task of the other
\* office, and the office has a deactivated user
C26_Witness ==
    /\ last.op = "GET /api/tasks" /\ last.code = 200 /\ last.body = <<>>
    /\ \E t \in DOMAIN tasks : tasks[t].officeId # users[last.uid].officeId
    /\ \E u \in DOMAIN users :
         users[u].officeId = users[last.uid].officeId /\ ~users[u].isActive

\* the tasks from which a chain of parentTaskId links, of any length from zero,
\* leads to a task of the project
UnderProject(tsk, projectId) ==
    {t \in DOMAIN tsk :
        \E n \in 1..Cardinality(DOMAIN tsk) : \E chain \in [1..n -> DOMAIN tsk] :
            /\ chain[1] = t
            /\ tsk[chain[n]].projectId = projectId
            /\ \A i \in 1..(n - 1) : tsk[chain[i]].parentTaskId = chain[i + 1]}

\* C27: a task disappears only by a DELETE of a task or of a project; the DELETE
\* of a project removes the tasks of the project and the tasks below them by
\* parentTaskId, and no other: every other task stays as it was, and no task that
\* stays has a removed task as its parent.
C27_ProjectCascade ==
    [][/\ (\E t \in DOMAIN tasks : t \notin DOMAIN tasks') =>
            last'.op \in {"DELETE /api/tasks/:id", "DELETE /api/projects/:id"}
       /\ (/\ last'.op = "DELETE /api/projects/:id"
           /\ last'.code = 200
           /\ last'.id \in DOMAIN projects)
          => /\ DOMAIN tasks' = DOMAIN tasks \ UnderProject(tasks, last'.id)
             /\ \A t \in DOMAIN tasks' : tasks'[t] = tasks[t]
             /\ \A t \in DOMAIN tasks' : tasks'[t].parentTaskId \in DOMAIN tasks' \cup {NULL}
      ]_vars

\* a project was deleted; a task of another project and a task of no project
\* remain, and a task that had no project itself is gone with its parent
C27_Witness ==
    /\ last.op = "DELETE /api/projects/:id" /\ last.code = 200
    /\ nextTaskId = CascadeMaxTasks + 1
    /\ Cardinality(DOMAIN tasks) = 1
    /\ \E t \in DOMAIN tasks : tasks[t].projectId \in DOMAIN projects

\* C28: when no registration is in flight, every office has a user of role admin:
\* a registration that was answered with an error has left no office behind.
C28_RegistrationAtomic ==
    (\A r \in RegSlots : registrations[r] = Idle) =>
        \A o \in DOMAIN offices :
            \E u \in DOMAIN users : users[u].officeId = o /\ users[u].role = "admin"

\* C29: once a user is deleted, a request with a token of that user is denied
\* (401 or 403) whenever the token was issued, and a login with the user's
\* credentials fails: the user reads and writes nothing more.
C29_DeletedUserDenied ==
    [][(/\ last'.op # "none"
        /\ last'.uid \in DOMAIN users
        /\ ~users[last'.uid].isActive)
       => /\ last'.code \in {401, 403}
          /\ UNCHANGED <<tables, records>>]_vars

\* the calls of updateTaskMutation.mutate a step makes
Fired == {slot \in DragSlots : mutations[slot] = Idle /\ mutations'[slot] # Idle}

====
